---- MODULE Spec2Model ----
(***************************************************************************)
(* Model of the ScrollBlocker class (src/src/vanilla/ScrollBlocker.js):    *)
(* the reference-counted enable/disable engine, the DOM writes of the lock *)
(* and unlock sequences, the resize listeners, the debounce timer and the  *)
(* animation-frame callbacks.                                              *)
(*                                                                         *)
(* JavaScript strings are modelled as sequences of one-character strings,  *)
(* so that template literals and parseInt are computed, not assumed.       *)
(***************************************************************************)
EXTENDS Integers, Sequences, FiniteSets, TLC

VARIABLES
    numberOfCalls,      \* #numberOfCalls
    breakpoint,         \* #breakpoint (Undefined or a string)
    misplacedElements,  \* #misplacedElements: <<options.misplacedElements, per-call value>>
    resizeTimer,        \* #resizeTimer: the handle last returned by setTimeout (0: undefined)
    innerWidth,         \* window.innerWidth
    clientWidth,        \* document.documentElement.clientWidth
    scrollY,            \* window.scrollY
    listeners,          \* number of 'resize' listeners registered on window
    pendingTimers,      \* handles of the timeouts that are armed and have not fired
    rafQueue,           \* values captured by the pending requestAnimationFrame callbacks
    rootClassList,      \* document.documentElement.classList
    marginRight,        \* document.documentElement.style.marginRight
    bodyTop,            \* document.body.style.top
    elemStyle,          \* per misplaced element: the value of its configured property
    last,               \* what the last operation was and what it issued
    c,                  \* the callers' reference counter (+1, -1 floored at 0, reset to 0),
                        \* kept for as long as no breakpoint has been passed
    lockY,              \* window.scrollY as the lock sequence in effect found it
    lockTargets         \* the misplaced elements merged by the enable call that locked

engineVars == <<numberOfCalls, breakpoint, misplacedElements, resizeTimer>>
windowVars == <<innerWidth, clientWidth, scrollY, listeners, pendingTimers, rafQueue>>
domVars    == <<rootClassList, marginRight, bodyTop, elemStyle>>
vars == <<numberOfCalls, breakpoint, misplacedElements, resizeTimer,
          innerWidth, clientWidth, scrollY, listeners, pendingTimers, rafQueue,
          rootClassList, marginRight, bodyTop, elemStyle, last, c, lockY, lockTargets>>

----------------------------------------------------------------------------
(* Bounds of the model *)

MaxCalls == 3
MaxListeners == 3
MaxFrames == 2

----------------------------------------------------------------------------
(* JavaScript values *)

Undefined == <<"undefined">>
EmptyString == <<>>

Digits == <<"0", "1", "2", "3", "4", "5", "6", "7", "8", "9">>
DigitSet == {Digits[i] : i \in 1..10}
Whitespace == {" "}

DigitVal(ch) == (CHOOSE i \in 1..10 : Digits[i] = ch) - 1

NaN == [nan |-> TRUE, val |-> 0]
Number(n) == [nan |-> FALSE, val |-> n]

\* String(n) for an integer n, as the template literal `${n}` produces it
RECURSIVE NatToString(_)
NatToString(n) ==
    IF n < 10 THEN <<Digits[n + 1]>>
    ELSE NatToString(n \div 10) \o <<Digits[(n % 10) + 1]>>

NumToString(n) == IF n < 0 THEN <<"-">> \o NatToString(-n) ELSE NatToString(n)

RECURSIVE SkipSpace(_)
SkipSpace(s) ==
    IF s # <<>> /\ Head(s) \in Whitespace THEN SkipSpace(Tail(s)) ELSE s

RECURSIVE DigitsPrefix(_)
DigitsPrefix(s) ==
    IF s # <<>> /\ Head(s) \in DigitSet THEN <<Head(s)>> \o DigitsPrefix(Tail(s))
    ELSE <<>>

RECURSIVE DigitsValue(_)
DigitsValue(ds) ==
    IF ds = <<>> THEN 0
    ELSE DigitsValue(SubSeq(ds, 1, Len(ds) - 1)) * 10 + DigitVal(ds[Len(ds)])

\* parseInt(s): leading whitespace, an optional sign, then the longest run of
\* decimal digits; NaN when there is no digit.
ParseInt(s) ==
    LET t   == SkipSpace(s)
        neg == t # <<>> /\ Head(t) = "-"
        u   == IF t # <<>> /\ Head(t) \in {"-", "+"} THEN Tail(t) ELSE t
        ds  == DigitsPrefix(u)
    IN  IF ds = <<>> THEN NaN
        ELSE Number(IF neg THEN 0 - DigitsValue(ds) ELSE DigitsValue(ds))

\* `${n}px`
Px(n) == NumToString(n) \o <<"p", "x">>

\* truthiness of a string or undefined
Truthy(s) == s # Undefined /\ s # EmptyString

----------------------------------------------------------------------------
(* The page and the inputs *)

className == "has-no-scroll"

\* <<window.innerWidth, documentElement.clientWidth>>: narrower than, equal to
\* and wider than the breakpoint; with a scrollbar (12), with a client width
\* larger than the viewport, and without a scrollbar
Viewports == {<<100, 88>>, <<200, 210>>, <<300, 300>>}
ScrollYs == {0, 120}

Bp200 == <<"2", "0", "0", "p", "x">>
BreakpointParams == {Undefined, Bp200, EmptyString}

Elements == {"p1", "p2"}

NoElement == "null"

\* options.misplacedElements given to the constructor
OptionsMisplaced ==
    [tag |-> "array",
     items |-> <<[element |-> "p1", nodes |-> {}, property |-> "margin-right"],
                 [element |-> NoElement, nodes |-> {}, property |-> "margin-left"]>>]

\* the values a caller passes as param.misplacedElements: nothing, or a
\* function returning a list with one NodeList
MisplacedUndefined == [tag |-> "undefined", items |-> <<>>]
MisplacedFunction ==
    [tag |-> "function",
     items |-> <<[element |-> "NodeList", nodes |-> {"p2"}, property |-> "padding-right"]>>]
MisplacedParams == {MisplacedUndefined, MisplacedFunction}

----------------------------------------------------------------------------
(* The private helpers of the class *)

DefaultParamIgnored(param, default) == param

\* a destructured parameter with a default: the default replaces undefined only
DefaultParam(param, default) == IF param = Undefined THEN default ELSE param

IsEnabledAboveOne(n) == n > 1

IsEnabledFromZero(n) == n >= 0

IsEnabled(n) == n > 0

ShouldBeLockedInclusive(bp, width) ==
    \/ bp = Undefined
    \/ LET p == ParseInt(bp) IN ~p.nan /\ p.val >= width

ShouldBeLockedBelow(bp, width) ==
    \/ bp = Undefined
    \/ LET p == ParseInt(bp) IN ~p.nan /\ p.val < width

ShouldBeLocked(bp, width) ==
    \/ bp = Undefined
    \/ LET p == ParseInt(bp) IN ~p.nan /\ p.val > width

IncreaseCount(n) == n + 1

DecreaseCountToZero(n) == 0

DecreaseCount(n) == n - 1

ResetCountByOne(n) == n - 1

ResetCount(n) == 0

AddClassName(list) == list \cup {className}

RemoveClassNameNot(list) == list

RemoveClassName(list) == list \ {className}

BodyTopForUnsigned(y) == IF y # 0 THEN Px(y) ELSE EmptyString

\* the value written to document.body.style.top by #adjustElementPositions
BodyTopFor(y) == IF y # 0 THEN <<"-">> \o Px(y) ELSE EmptyString

\* the scrollTop computed by #restoreElementPositions from document.body.style.top
ScrollTopFor(top) ==
    LET p == ParseInt(top)
        bodyTopOrZero == IF p.nan \/ p.val = 0 THEN 0 ELSE p.val
    IN  bodyTopOrZero * (0 - 1)

ScrollbarWidthSwapped(width, client) == client - width

ScrollbarWidth(width, client) == width - client

\* .map(fn => typeof fn === 'function' ? fn() : fn).flat()
\*  .filter(misplacedElement => misplacedElement && misplacedElement.element)
RECURSIVE Flat(_)
Flat(list) ==
    IF list = <<>> THEN <<>>
    ELSE (IF Head(list).tag = "undefined" THEN <<>> ELSE Head(list).items) \o Flat(Tail(list))

\* the elements whose property the forEach of #adjustMisplacedElements writes
Targets(list) ==
    LET flat == Flat(list)
    IN  UNION { IF flat[i].element = NoElement THEN {}
                ELSE IF flat[i].element = "NodeList" THEN flat[i].nodes
                ELSE {flat[i].element} : i \in 1..Len(flat) }

----------------------------------------------------------------------------
(* window.addEventListener / removeEventListener with this.#handleResize.bind(this) *)

\* bind() returns a new function on every call, so the listener passed is never
\* one that is already registered: addEventListener always adds it.
AddEventListener(n) == n + 1

\* the function passed to removeEventListener is again a new one, which
\* matches no registered listener: nothing is removed.
RemoveEventListener(n) == n

\* setTimeout returns a handle that no pending timeout has
TimerIds == 1..(MaxListeners + 1)
NewTimer(pending) == CHOOSE id \in TimerIds : id \notin pending

HandleResizeNoClear(t) ==
    [pending |-> t.pending \cup {NewTimer(t.pending)}, timer |-> NewTimer(t.pending)]

\* #handleResize() run by one listener: clearTimeout(this.#resizeTimer), then
\* this.#resizeTimer = setTimeout(...); t is <<pending timeouts, #resizeTimer>>
HandleResize(t) ==
    LET cleared == t.pending \ {t.timer}
    IN  [pending |-> cleared \cup {NewTimer(cleared)}, timer |-> NewTimer(cleared)]

\* the resize event runs the n registered listeners one after the other
RECURSIVE DispatchResize(_, _)
DispatchResize(n, t) ==
    IF n = 0 THEN t ELSE DispatchResize(n - 1, HandleResize(t))

NoScroll == 0 - 1

Op(op, by, before, force, bp, scrollTo, added, removeCalled) ==
    [op |-> op, by |-> by, before |-> before, force |-> force, bp |-> bp,
     scrollTo |-> scrollTo, added |-> added, removeCalled |-> removeCalled,
     writes |-> <<>>]

LockWritesClassFirst(width) ==
    <<"classList.add", "body.style.top">> \o
    (IF width <= 0 THEN <<>>
     ELSE <<"documentElement.style.marginRight", "requestAnimationFrame">>)

\* what the lock sequence of enable writes and schedules, in the order of the
\* statements: #adjustElementPositions(), then #addClassName()
LockWrites(width) ==
    <<"body.style.top">> \o
    (IF width <= 0 THEN <<>>
     ELSE <<"documentElement.style.marginRight", "requestAnimationFrame">>) \o
    <<"classList.add">>

----------------------------------------------------------------------------
Init ==
    /\ numberOfCalls = 0
    /\ breakpoint = Undefined
    /\ misplacedElements = <<>>
    /\ resizeTimer = 0
    /\ \E v \in Viewports : innerWidth = v[1] /\ clientWidth = v[2]
    /\ scrollY \in ScrollYs
    /\ listeners = 0
    /\ pendingTimers = {}
    /\ rafQueue = <<>>
    /\ rootClassList = {}
    /\ marginRight = EmptyString
    /\ bodyTop = EmptyString
    /\ elemStyle = [e \in Elements |-> EmptyString]
    /\ last = Op("init", "none", 0, FALSE, Undefined, NoScroll, FALSE, FALSE)
    /\ c = 0
    /\ lockY = 0
    /\ lockTargets = {}

----------------------------------------------------------------------------
AdjustMisplacedElementsTruthy(value) ==
    /\ marginRight' = value
    /\ rafQueue' = IF value = EmptyString THEN rafQueue ELSE Append(rafQueue, value)

(* #adjustMisplacedElements(value): the root margin now, the elements in the next frame *)
AdjustMisplacedElements(value) ==
    /\ marginRight' = value
    /\ rafQueue' = Append(rafQueue, value)

(* #adjustElementPositions() *)
AdjustElementPositions ==
    /\ bodyTop' = BodyTopFor(scrollY)
    /\ lockY' = scrollY
    /\ IF ScrollbarWidth(innerWidth, clientWidth) <= 0
       THEN UNCHANGED <<marginRight, rafQueue>>
       ELSE AdjustMisplacedElements(Px(ScrollbarWidth(innerWidth, clientWidth)))

(* #restoreElementPositions() *)
RestoreElementPositions ==
    /\ AdjustMisplacedElements(EmptyString)
    /\ bodyTop' = EmptyString
    /\ scrollY' = ScrollTopFor(bodyTop)

(* enable({ breakpoint = this.#breakpoint, misplacedElements } = {}) *)
EnableBody(bp, me, by) ==
    LET newBp == DefaultParam(bp, breakpoint)
    IN  /\ breakpoint' = newBp
        /\ IF ~ShouldBeLocked(newBp, innerWidth)
           THEN /\ UNCHANGED <<numberOfCalls, misplacedElements, listeners, rafQueue,
                               rootClassList, marginRight, bodyTop, lockY, lockTargets>>
                /\ last' = Op("enable", by, numberOfCalls, FALSE, bp, NoScroll, FALSE, FALSE)
           ELSE /\ misplacedElements' = <<OptionsMisplaced, me>>
                /\ IF ~IsEnabled(numberOfCalls)
                   THEN /\ AdjustElementPositions
                        /\ rootClassList' = AddClassName(rootClassList)
                        /\ lockTargets' = Targets(<<OptionsMisplaced, me>>)
                   ELSE UNCHANGED <<rafQueue, rootClassList, marginRight, bodyTop, lockY,
                                    lockTargets>>
                /\ listeners' = IF Truthy(newBp) THEN AddEventListener(listeners) ELSE listeners
                /\ numberOfCalls' = IncreaseCount(numberOfCalls)
                /\ last' = [Op("enable", by, numberOfCalls, FALSE, bp, NoScroll,
                               Truthy(newBp), FALSE)
                             EXCEPT !.writes =
                                IF ~IsEnabled(numberOfCalls)
                                THEN LockWrites(ScrollbarWidth(innerWidth, clientWidth))
                                ELSE <<>>]
        /\ UNCHANGED <<resizeTimer, innerWidth, clientWidth, scrollY, elemStyle>>

(* disable(force = false) *)
DisableBody(force, by) ==
    LET n == IF force THEN ResetCount(numberOfCalls) ELSE DecreaseCount(numberOfCalls)
    IN  /\ IF ~IsEnabled(numberOfCalls)
           THEN /\ UNCHANGED <<numberOfCalls, listeners, rafQueue, rootClassList,
                               marginRight, bodyTop, scrollY, lockY, lockTargets>>
                /\ last' = Op("disable", by, numberOfCalls, force, Undefined, NoScroll,
                              FALSE, FALSE)
           ELSE /\ numberOfCalls' = n
                /\ IF IsEnabled(n)
                   THEN /\ UNCHANGED <<listeners, rafQueue, rootClassList, marginRight,
                                       bodyTop, scrollY, lockY, lockTargets>>
                        /\ last' = Op("disable", by, numberOfCalls, force, Undefined,
                                      NoScroll, FALSE, FALSE)
                   ELSE /\ rootClassList' = RemoveClassName(rootClassList)
                        /\ RestoreElementPositions
                        /\ listeners' = RemoveEventListener(listeners)
                        /\ lockY' = 0
                        /\ lockTargets' = {}
                        /\ last' = Op("disable", by, numberOfCalls, force, Undefined,
                                      ScrollTopFor(bodyTop), FALSE, TRUE)
        /\ UNCHANGED <<breakpoint, misplacedElements, resizeTimer, innerWidth, clientWidth,
                       elemStyle>>

\* the bounds on the counters of the model
WithinBounds ==
    /\ numberOfCalls < MaxCalls
    /\ listeners < MaxListeners
    /\ Len(rafQueue) < MaxFrames

----------------------------------------------------------------------------
(* The operations *)

\* a caller calls enable(param)
Enable(bp, me) ==
    /\ WithinBounds
    /\ EnableBody(bp, me, "caller")
    /\ c' = IF breakpoint' = Undefined THEN c + 1 ELSE 0
    /\ UNCHANGED pendingTimers

\* a caller calls disable(force)
Disable(force) ==
    /\ Len(rafQueue) < MaxFrames
    /\ DisableBody(force, "caller")
    /\ c' = IF force \/ breakpoint # Undefined THEN 0 ELSE IF c > 0 THEN c - 1 ELSE 0
    /\ UNCHANGED pendingTimers

\* the window is resized to a width (possibly the same one) and the resize
\* event is dispatched: every registered listener runs #handleResize
Resize(v) ==
    /\ innerWidth' = v[1]
    /\ clientWidth' = v[2]
    /\ LET t == DispatchResize(listeners, [pending |-> pendingTimers, timer |-> resizeTimer])
       IN  /\ pendingTimers' = t.pending
           /\ resizeTimer' = t.timer
    /\ last' = Op("resize", "none", numberOfCalls, FALSE, Undefined, NoScroll, FALSE, FALSE)
    /\ UNCHANGED <<numberOfCalls, breakpoint, misplacedElements, scrollY, listeners,
                   rafQueue, rootClassList, marginRight, bodyTop, elemStyle, c, lockY,
                   lockTargets>>

\* a debounce timer fires: this.#shouldBeLocked() ? this.enable() : this.disable()
TimerFire ==
    /\ \E id \in pendingTimers : pendingTimers' = pendingTimers \ {id}
    /\ IF ShouldBeLocked(breakpoint, innerWidth)
       THEN /\ WithinBounds
            /\ EnableBody(Undefined, MisplacedUndefined, "timer")
       ELSE /\ Len(rafQueue) < MaxFrames
            /\ DisableBody(FALSE, "timer")
    /\ UNCHANGED c

\* the next animation frame: the oldest pending callback of
\* #adjustMisplacedElements writes its value to the misplaced elements
Frame ==
    /\ rafQueue # <<>>
    /\ rafQueue' = Tail(rafQueue)
    /\ elemStyle' = [e \in Elements |->
                        IF e \in Targets(misplacedElements) THEN Head(rafQueue)
                        ELSE elemStyle[e]]
    /\ last' = Op("frame", "none", numberOfCalls, FALSE, Undefined, NoScroll, FALSE, FALSE)
    /\ UNCHANGED <<numberOfCalls, breakpoint, misplacedElements, resizeTimer, innerWidth,
                   clientWidth, scrollY, listeners, pendingTimers, rootClassList,
                   marginRight, bodyTop, c, lockY, lockTargets>>

\* the user scrolls the page
Scroll(y) ==
    /\ y # scrollY
    /\ scrollY' = y
    /\ last' = Op("scroll", "none", numberOfCalls, FALSE, Undefined, NoScroll, FALSE, FALSE)
    /\ UNCHANGED <<numberOfCalls, breakpoint, misplacedElements, resizeTimer, innerWidth,
                   clientWidth, listeners, pendingTimers, rafQueue, rootClassList,
                   marginRight, bodyTop, elemStyle, c, lockY, lockTargets>>

Next ==
    \/ \E bp \in BreakpointParams, me \in MisplacedParams : Enable(bp, me)
    \/ \E force \in BOOLEAN : Disable(force)
    \/ \E v \in Viewports : Resize(v)
    \/ TimerFire
    \/ Frame
    \/ \E y \in ScrollYs : Scroll(y)

Spec == Init /\ [][Next]_vars

----------------------------------------------------------------------------
(* Lock cycles only: enable(p) on the unlocked blocker, the matching        *)
(* disable(), then the pending animation frames; the page may be resized or *)
(* scrolled at any point. A cycle starts when the frames of the one before  *)
(* have run, and no reconciliation runs.                                    *)

CycleEnable(bp, me) ==
    /\ ~IsEnabled(numberOfCalls)
    /\ rafQueue = <<>>
    /\ Enable(bp, me)

CycleDisable ==
    /\ IsEnabled(numberOfCalls)
    /\ Disable(FALSE)

NextCycle ==
    \/ \E bp \in BreakpointParams, me \in MisplacedParams : CycleEnable(bp, me)
    \/ CycleDisable
    \/ \E v \in Viewports : Resize(v)
    \/ Frame
    \/ \E y \in ScrollYs : Scroll(y)

SpecCycle == Init /\ [][NextCycle]_vars

----------------------------------------------------------------------------
(* Properties *)

\* what the page shows and what enable and disable register or schedule
pageVars == <<rootClassList, marginRight, bodyTop, elemStyle, scrollY, listeners,
              rafQueue>>

\* C1: as long as enable is called without a breakpoint, isEnabled is true
\* exactly when the callers' reference counter c (enable: +1, disable: -1 but
\* not below 0, disable(true): 0) is greater than 0.
C1_IsEnabledIffCounterPositive ==
    breakpoint = Undefined => (IsEnabled(numberOfCalls) <=> c > 0)

\* enable(); enable(); disable() leaves the blocker enabled
C1_Witness ==
    /\ breakpoint = Undefined
    /\ last.op = "disable" /\ ~last.force /\ last.before = 2
    /\ c = 1 /\ IsEnabled(numberOfCalls)

C3_DisableWhenUnlockedIsNoOp ==
    /\ [][(last'.op = "disable" /\ last'.before = 0) =>
             /\ numberOfCalls' = 0
             /\ UNCHANGED pageVars
             /\ UNCHANGED <<breakpoint, misplacedElements, resizeTimer>>
             /\ last'.scrollTo = NoScroll
             /\ ~last'.removeCalled]_vars
    /\ [](numberOfCalls >= 0)

\* disable(true) on an unlocked blocker that has listeners and a pending timer
C3_Witness ==
    /\ last.op = "disable" /\ last.force /\ last.before = 0 /\ last.by = "caller"
    /\ listeners > 0 /\ pendingTimers # {}

\* C4: enable({breakpoint: b}) with parseInt(b) <= window.innerWidth stores b
\* and does nothing else, whether the blocker is locked or not.
C4_EnableAtOrAboveBreakpointIsNoOp ==
    [][(/\ last'.op = "enable" /\ last'.by = "caller" /\ last'.bp # Undefined
        /\ ~ParseInt(last'.bp).nan /\ ParseInt(last'.bp).val <= innerWidth) =>
          /\ breakpoint' = last'.bp
          /\ UNCHANGED numberOfCalls
          /\ UNCHANGED pageVars
          /\ UNCHANGED <<misplacedElements, resizeTimer, pendingTimers>>
          /\ ~last'.added]_vars

\* enable({breakpoint: '200px'}) at width 200 while locked
C4_Witness ==
    /\ last.op = "enable" /\ last.by = "caller" /\ last.bp = Bp200
    /\ innerWidth = 200
    /\ last.before >= 1 /\ numberOfCalls = last.before

\* C5: between operations, the root element has the lock class exactly when
\* isEnabled is true.
C5_ClassIffEnabled ==
    (className \in rootClassList) <=> IsEnabled(numberOfCalls)

\* the disable() matching one enable() without breakpoint
C5_Witness ==
    /\ breakpoint = Undefined
    /\ last.op = "disable" /\ last.before = 1 /\ ~last.force
    /\ className \notin rootClassList

\* the strings the claims name, written out
Marker(y) ==
    CASE y = 0 -> <<>>
      [] y = 120 -> <<"-", "1", "2", "0", "p", "x">>

Pixels(n) ==
    CASE n = 12 -> <<"1", "2", "p", "x">>

NonNumericMarkers ==
    {<<>>, <<"p", "x">>, <<"-", "p", "x">>, <<"a", "u", "t", "o">>, <<"-">>}

IsLockStep == last'.op = "enable" /\ last'.before = 0 /\ numberOfCalls' = 1

IsUnlockStep == last'.op = "disable" /\ last'.before >= 1 /\ numberOfCalls' = 0

C8_CycleRoundTrip ==
    (~IsEnabled(numberOfCalls) /\ rafQueue = <<>>) =>
        /\ className \notin rootClassList
        /\ marginRight = EmptyString
        /\ bodyTop = EmptyString
        /\ \A e \in Elements : elemStyle[e] = EmptyString

\* the end of a second cycle with a breakpoint, after its frames have run
C8_Witness ==
    /\ ~IsEnabled(numberOfCalls) /\ rafQueue = <<>>
    /\ last.op = "frame" /\ listeners = 2
    /\ Targets(misplacedElements) = Elements

\* C9: the timer callback calls enable() when the stored breakpoint is
\* numerically greater than the current window.innerWidth, and the blocker is
\* locked afterwards; otherwise it calls disable().
C9_TimerReconciles ==
    [][last'.by = "timer" =>
          IF ~ParseInt(breakpoint).nan /\ ParseInt(breakpoint).val > innerWidth
          THEN /\ last'.op = "enable" /\ last'.bp = Undefined
               /\ numberOfCalls' = numberOfCalls + 1
               /\ IsEnabled(numberOfCalls')
          ELSE /\ last'.op = "disable" /\ ~last'.force
               /\ numberOfCalls' <= numberOfCalls]_vars

\* the timer fired below the breakpoint while locked
C9_Witness ==
    /\ last.by = "timer" /\ last.op = "enable" /\ last.before >= 1
    /\ breakpoint = Bp200 /\ innerWidth = 100
    /\ IsEnabled(numberOfCalls)

\* C10: when the timer fires with window.innerWidth >= the stored breakpoint
\* while the blocker is locked, whatever numberOfCalls is, the blocker is
\* unlocked afterwards and the class is gone.
C10_AutoRelease ==
    [][(/\ last'.by = "timer"
        /\ IsEnabled(numberOfCalls)
        /\ ~ParseInt(breakpoint).nan /\ ParseInt(breakpoint).val <= innerWidth) =>
          /\ ~IsEnabled(numberOfCalls')
          /\ className \notin rootClassList']_vars

\* C11: at most one timeout is pending in every state; a resize event leaves
\* exactly one pending, however many listeners ran and whether or not one was
\* pending before, and the firing of that one leaves none: a burst of resize
\* events is followed by one reconciliation.
C11_OnePendingTimer ==
    /\ [](Cardinality(pendingTimers) <= 1)
    /\ [][last'.op = "resize" =>
             Cardinality(pendingTimers') = IF listeners > 0 THEN 1 ELSE 0]_vars
    /\ [][last'.by = "timer" => pendingTimers' = {}]_vars

\* a resize event dispatched to two listeners or more
C11_Witness ==
    /\ last.op = "resize" /\ listeners >= 2
    /\ Cardinality(pendingTimers) = 1

\* C12: at most one resize listener of the blocker is registered on the window.
C12_OneListener == listeners <= 1

\* C13: when the blocker is unlocked, no resize listener of the blocker is
\* registered on the window.
C13_NoListenerWhenUnlocked == ~IsEnabled(numberOfCalls) => listeners = 0

\* C14: a timer that is pending when disable unlocks the blocker and fires next
\* calls disable(), which does nothing: the blocker stays unlocked, no class
\* is added and no style is written or scheduled.
C14_StaleTimerIsHarmless ==
    [][(/\ last.op = "disable" /\ last.before >= 1 /\ numberOfCalls = 0
        /\ last'.by = "timer") =>
          /\ last'.op = "disable"
          /\ numberOfCalls' = 0
          /\ UNCHANGED <<rootClassList, marginRight, bodyTop, elemStyle, rafQueue>>]_vars

\* C15: when the blocker is unlocked and no animation frame is pending, every
\* misplaced element's property is unset.
C15_CompensationCleared ==
    (~IsEnabled(numberOfCalls) /\ rafQueue = <<>>) =>
        \A e \in Elements : elemStyle[e] = EmptyString

\* C16: an enable call made while numberOfCalls >= 1 changes no class and no
\* style and keeps the offset captured at the lock, whatever the scroll offset
\* and the viewport are now; a disable that leaves numberOfCalls >= 1 changes no
\* class and no style and issues no scrollTo.
C16_StylesChangeOnlyOnTransitions ==
    /\ [][(last'.op = "enable" /\ last'.before >= 1) =>
             /\ UNCHANGED <<rootClassList, marginRight, bodyTop, elemStyle, rafQueue>>
             /\ UNCHANGED <<lockY, scrollY>>
             /\ last'.writes = <<>>]_vars
    /\ [][(last'.op = "disable" /\ numberOfCalls' >= 1) =>
             /\ UNCHANGED <<rootClassList, marginRight, bodyTop, elemStyle, rafQueue>>
             /\ UNCHANGED <<lockY, scrollY>>
             /\ last'.scrollTo = NoScroll]_vars

\* a permitted enable while locked at offset 120, the page now scrolled to 0
\* and the viewport without a scrollbar
C16_Witness ==
    /\ last.op = "enable" /\ last.before >= 1 /\ numberOfCalls = last.before + 1
    /\ lockY = 120 /\ scrollY = 0 /\ bodyTop = Marker(120)
    /\ innerWidth = 300 /\ marginRight = Pixels(12)

\* the number of disable() calls that unlock a blocker whose count is n
RECURSIVE DisablesToUnlock(_)
DisablesToUnlock(n) ==
    IF ~IsEnabled(n) THEN 0 ELSE 1 + DisablesToUnlock(DecreaseCount(n))

\* C17: a reconciliation that fires while the blocker is locked and the
\* viewport is narrower than the breakpoint leaves the number of disable()
\* calls needed to unlock as it was.
C17_ReconciliationKeepsCount ==
    [][(last'.by = "timer" /\ last'.op = "enable" /\ last'.before >= 1) =>
          DisablesToUnlock(numberOfCalls') = DisablesToUnlock(numberOfCalls)]_vars

Position(seq, x) == CHOOSE i \in 1..Len(seq) : seq[i] = x

IsLockStepWithScrollbar == IsLockStep /\ innerWidth - clientWidth > 0

C19_FrameWritesLockTargets ==
    [][(/\ last'.op = "frame" /\ IsEnabled(numberOfCalls)
        /\ Len(rafQueue) = 1 /\ Head(rafQueue) # EmptyString) =>
          \A e \in lockTargets : elemStyle'[e] = Head(rafQueue)]_vars

\* C20: #breakpoint is the last breakpoint passed to enable, by a permitted or
\* a rejected call; an enable without breakpoint, a disable and a timer firing
\* leave it as it is, it never becomes undefined again, and an enable()
\* without breakpoint is judged against it.
C20_BreakpointIsSticky ==
    /\ [][IF last'.op = "enable" /\ last'.bp # Undefined
          THEN breakpoint' = last'.bp
          ELSE breakpoint' = breakpoint]_vars
    /\ [][breakpoint # Undefined => breakpoint' # Undefined]_vars
    /\ [][(/\ last'.op = "enable" /\ last'.bp = Undefined
           /\ ~ParseInt(breakpoint).nan /\ ParseInt(breakpoint).val <= innerWidth
           /\ breakpoint # Undefined) =>
             numberOfCalls' = numberOfCalls]_vars

\* enable() without breakpoint, rejected by the breakpoint stored before a
\* full unlock
C20_Witness ==
    /\ last.op = "enable" /\ last.by = "caller" /\ last.bp = Undefined
    /\ breakpoint = Bp200 /\ innerWidth = 300
    /\ numberOfCalls = 0 /\ listeners >= 1

====
